---- MODULE Spec2Model ----
(***************************************************************************)
(* Model of the auto-version action (src/src/main.ts).  The file holds two *)
(* revisions of the script: revision 1 (lines 1-279) and revision 2       *)
(* (lines 281-538).  Texts are TLA+ strings handled character by          *)
(* character; indices follow JavaScript (0-based) unless noted.           *)
(***************************************************************************)
EXTENDS Integers, Sequences, FiniteSets, TLC

VARIABLES
  rev,         \* which revision of main.ts is running (1 or 2)
  pc,          \* the operation that produced the current state
  lastIndex,   \* lastIndex of the global-flag regexes reMajor/reMinor/rePatch
  str,         \* argument of the last getChangeTypeFromString call
  ret,         \* its outcome: a SemVerType, or "THROW" when it raised
  version,     \* the version text held by the caller (package.json version)
  semVerType,  \* change type of the last incrementSemVer call
  oldVersion,  \* argument of the last incrementSemVer call
  steps,       \* number of incrementSemVer calls made so far
  content,     \* the changelog file
  before,      \* the changelog file before the last updateChangeLog call
  orig,        \* the changelog file before the last two updateChangeLog calls
  args,        \* [version, date, msg] of the last updateChangeLog call
  repeated,    \* the last two updateChangeLog calls had the same arguments
  inserts,     \* number of updateChangeLog calls made so far
  io           \* inputs and outputs of run: the event, the action's inputs,
               \* changeType, the outputs set, the commits issued

vars == <<rev, pc, lastIndex, str, ret, version, semVerType, oldVersion,
          steps, content, before, orig, args, repeated, inserts, io>>

classifierVars == <<lastIndex, str, ret>>
semVerVars == <<version, semVerType, oldVersion, steps>>
changeLogVars == <<content, before, orig, args, repeated, inserts>>

-----------------------------------------------------------------------------
(* Bounds *)

MaxFrags == 2      \* fragments per classified text
MaxSteps == 3      \* incrementSemVer calls in a row
MaxInserts == 2    \* updateChangeLog calls on one file

-----------------------------------------------------------------------------
(* JavaScript string primitives *)

Min(S) == CHOOSE x \in S : \A y \in S : x <= y
Max(S) == CHOOSE x \in S : \A y \in S : x >= y

Clamp(n, len) == IF n < 0 THEN 0 ELSE IF n > len THEN len ELSE n

\* String.prototype.substring(a, b): arguments clamped to [0, length] and
\* swapped when a > b.
substring(s, a, b) ==
  LET ca == Clamp(a, Len(s))
      cb == Clamp(b, Len(s))
      lo == IF ca <= cb THEN ca ELSE cb
      hi == IF ca <= cb THEN cb ELSE ca
  IN SubSeq(s, lo + 1, hi)

\* s[k], the empty string when k is out of range
charAt(s, k) == IF k >= 0 /\ k < Len(s) THEN SubSeq(s, k + 1, k + 1) ELSE ""

\* String.prototype.indexOf(pat): first index where pat occurs, -1 if none
indexOf(s, pat) ==
  LET hits == {k \in 0..(Len(s) - Len(pat)) : substring(s, k, k + Len(pat)) = pat}
  IN IF hits = {} THEN -1 ELSE Min(hits)

Digits == {"0", "1", "2", "3", "4", "5", "6", "7", "8", "9"}
Lowers == {"a", "b", "c", "d", "e", "h", "i", "j", "l", "m", "n", "o", "p",
           "r", "t", "u", "x"}
Uppers == {"A", "C", "H", "I", "J", "M", "N", "O", "P", "R", "T"}

\* \s (the white space that occurs in the modelled texts)
IsSpace(c) == c \in {" ", "\t", "\n"}
\* a line terminator, for ^ under the m flag and for the . wildcard
IsLineTerminator(c) == c \in {"\n", "\r"}

ToLower(c) ==
  CASE c = "A" -> "a" [] c = "C" -> "c" [] c = "H" -> "h" [] c = "I" -> "i"
    [] c = "J" -> "j" [] c = "M" -> "m" [] c = "N" -> "n" [] c = "O" -> "o"
    [] c = "P" -> "p" [] c = "R" -> "r" [] c = "T" -> "t" [] OTHER -> c

\* end (exclusive) of the longest run of characters of class from index k
RECURSIVE SpanEnd(_, _, _)
SpanEnd(s, k, class) ==
  IF k < Len(s) /\ charAt(s, k) \in class THEN SpanEnd(s, k + 1, class) ELSE k

\* [0-9A-Za-z-]
IdentChars == Digits \cup Lowers \cup Uppers \cup {"-"}

-----------------------------------------------------------------------------
(* ChangeTypeClassifier: reMajor / reMinor / rePatch and                   *)
(* getChangeTypeFromString                                                 *)

SemVerTypes == {"MAJOR", "MINOR", "PATCH", "UNKNOWN"}

\* the word of each pattern /#word|\[\s?word\s?\]/gi
reMajor == "major"
reMinor == "minor"
rePatch == "patch"

\* the word matches at index k, ignoring case (flag i)
WordAt(word, s, k) ==
  \A j \in 0..(Len(word) - 1) : ToLower(charAt(s, k + j)) = charAt(word, j)

\* end (exclusive) of a match of /#word|\[\s?word\s?\]/i starting exactly at
\* index k, or -1 when there is none
TagEnd(word, s, k) ==
  IF charAt(s, k) = "#" /\ WordAt(word, s, k + 1) THEN k + 1 + Len(word)
  ELSE IF charAt(s, k) = "["
  THEN LET a == IF IsSpace(charAt(s, k + 1)) THEN k + 2 ELSE k + 1
           b == a + Len(word)
           c == IF IsSpace(charAt(s, b)) THEN b + 1 ELSE b
       IN IF WordAt(word, s, a) /\ charAt(s, c) = "]" THEN c + 1 ELSE -1
  ELSE -1

\* RegExp.prototype.test on a regex with the g flag: the search starts at
\* the regex's lastIndex; a match leaves lastIndex at the end of the match,
\* a failure resets it to 0.
RegExpTest(word, s, li) ==
  LET hits == {k \in li..Len(s) : TagEnd(word, s, k) # -1}
  IN IF li > Len(s) \/ hits = {}
     THEN [ok |-> FALSE, lastIndex |-> 0]
     ELSE [ok |-> TRUE, lastIndex |-> TagEnd(word, s, Min(hits))]

\* the three tests of getChangeTypeFromString, in source order, on text s
\* with the regexes' lastIndex li: the first pattern that matched ("NONE"
\* when none did) and the regexes' lastIndex afterwards.  A test that is not
\* reached leaves its regex untouched.
FirstMatch(s, li) ==
  LET tMajor == RegExpTest(reMajor, s, li.major)
      tMinor == RegExpTest(reMinor, s, li.minor)
      tPatch == RegExpTest(rePatch, s, li.patch)
      liMajor == [li EXCEPT !.major = tMajor.lastIndex]
      liMinor == [liMajor EXCEPT !.minor = tMinor.lastIndex]
      liPatch == [liMinor EXCEPT !.patch = tPatch.lastIndex]
  IN IF tMajor.ok THEN [ret |-> "MAJOR", lastIndex |-> liMajor]
     ELSE IF tMinor.ok THEN [ret |-> "MINOR", lastIndex |-> liMinor]
     ELSE IF tPatch.ok THEN [ret |-> "PATCH", lastIndex |-> liPatch]
     ELSE [ret |-> "NONE", lastIndex |-> liPatch]

\* revision 1: throws when no pattern matches
getChangeTypeFromString(s, li) ==
  LET m == FirstMatch(s, li)
  IN IF m.ret = "NONE" THEN [m EXCEPT !.ret = "THROW"] ELSE m

\* revision 2: returns SemVerType.UNKNOWN when no pattern matches
getChangeTypeFromString2(s, li) ==
  LET m == FirstMatch(s, li)
  IN IF m.ret = "NONE" THEN [m EXCEPT !.ret = "UNKNOWN"] ELSE m

\* the texts handed to the classifier: up to MaxFrags fragments in a row
Frags == {"", "x ", "[major] ", "#MAJOR", "[ Minor ]", "#patch", "[  major]"}

RECURSIVE TextsOf(_)
TextsOf(n) ==
  IF n = 0 THEN {""} ELSE {t \o f : t \in TextsOf(n - 1), f \in Frags}

Texts == TextsOf(MaxFrags)

-----------------------------------------------------------------------------
(* VersionGrammar: reSemVerFormat, reSemVerFormatBasic, isSemVer *)

\* the (?:\.[0-9A-Za-z-]+)* loop of the prerelease group, from index q
RECURSIVE PreLoop(_, _)
PreLoop(s, q) ==
  IF charAt(s, q) = "." /\ SpanEnd(s, q + 1, IdentChars) > q + 1
  THEN PreLoop(s, SpanEnd(s, q + 1, IdentChars))
  ELSE q

\* end (exclusive) of the match of
\*   ([0-9]+)\.([0-9]+)\.([0-9]+)(?:-(I+(?:\.I+)*))?(?:\+I+)?
\* that starts at index k (I = [0-9A-Za-z-]), or -1.  Neither "." nor "+"
\* nor "]" is in I, so the greedy match is the only one that can be followed
\* by the end of the text or by "]".
SemVerEnd(s, k) ==
  LET a == SpanEnd(s, k, Digits)
      b == SpanEnd(s, a + 1, Digits)
      c == SpanEnd(s, b + 1, Digits)
      ok == /\ a > k /\ charAt(s, a) = "."
            /\ b > a + 1 /\ charAt(s, b) = "."
            /\ c > b + 1
      pre == IF charAt(s, c) = "-" /\ SpanEnd(s, c + 1, IdentChars) > c + 1
             THEN PreLoop(s, SpanEnd(s, c + 1, IdentChars))
             ELSE c
      bld == IF charAt(s, pre) = "+" /\ SpanEnd(s, pre + 1, IdentChars) > pre + 1
             THEN SpanEnd(s, pre + 1, IdentChars)
             ELSE pre
  IN IF ok THEN bld ELSE -1

\* reSemVerFormat.test(s): the pattern is anchored by ^ and $
reSemVerFormat(s) == SemVerEnd(s, 0) = Len(s)

isSemVer(v) == reSemVerFormat(v)

\* the . of reSemVerFormatBasic: any character but a line terminator
Wildcard(s, k) == k < Len(s) /\ ~IsLineTerminator(charAt(s, k))

\* reSemVerFormatBasic.exec(s)[0] for /^[0-9]+.[0-9]+.[0-9]+/: the three
\* digit runs are greedy, and the first two give characters back (longest
\* first) until the rest of the pattern matches.  "" stands for null.
reSemVerFormatBasic(s) ==
  LET run1 == SpanEnd(s, 0, Digits)
      ThirdEnd(b) == SpanEnd(s, b + 1, Digits)
      SecondEnds(a) == {b \in (a + 2)..SpanEnd(s, a + 1, Digits) :
                          Wildcard(s, b) /\ ThirdEnd(b) > b + 1}
      FirstEnds == {a \in 1..run1 : Wildcard(s, a) /\ SecondEnds(a) # {}}
  IN IF FirstEnds = {} THEN ""
     ELSE LET a == Max(FirstEnds)
              b == Max(SecondEnds(a))
          IN substring(s, 0, ThirdEnd(b))

-----------------------------------------------------------------------------
(* SemVerEngine: incrementStrNum and incrementSemVer *)

\* String.prototype.split(".")
RECURSIVE split(_)
split(s) ==
  LET k == indexOf(s, ".")
  IN IF k = -1 THEN <<s>>
     ELSE <<substring(s, 0, k)>> \o split(substring(s, k + 1, Len(s)))

\* join with the default separator of Array.prototype.join, ","
RECURSIVE joinDefaultSeparator(_)
joinDefaultSeparator(arr) ==
  IF Len(arr) = 0 THEN ""
  ELSE IF Len(arr) = 1 THEN arr[1]
  ELSE arr[1] \o "," \o joinDefaultSeparator(Tail(arr))

\* Array.prototype.join(".")
RECURSIVE join(_)
join(arr) ==
  IF Len(arr) = 0 THEN ""
  ELSE IF Len(arr) = 1 THEN arr[1]
  ELSE arr[1] \o "." \o join(Tail(arr))

DigitVal(c) ==
  CASE c = "0" -> 0 [] c = "1" -> 1 [] c = "2" -> 2 [] c = "3" -> 3
    [] c = "4" -> 4 [] c = "5" -> 5 [] c = "6" -> 6 [] c = "7" -> 7
    [] c = "8" -> 8 [] c = "9" -> 9

DigitChar(d) ==
  CASE d = 0 -> "0" [] d = 1 -> "1" [] d = 2 -> "2" [] d = 3 -> "3"
    [] d = 4 -> "4" [] d = 5 -> "5" [] d = 6 -> "6" [] d = 7 -> "7"
    [] d = 8 -> "8" [] d = 9 -> "9"

\* value of the digit string s[0..n)
RECURSIVE DigitsVal(_, _)
DigitsVal(s, n) ==
  IF n = 0 THEN 0 ELSE 10 * DigitsVal(s, n - 1) + DigitVal(charAt(s, n - 1))

\* parseInt(s): the value of the leading run of digits; -1 stands for NaN
parseInt(s) ==
  LET n == SpanEnd(s, 0, Digits)
  IN IF n = 0 THEN -1 ELSE DigitsVal(s, n)

\* Number.prototype.toString(): decimal, no leading zeros
RECURSIVE toString(_)
toString(n) ==
  IF n < 10 THEN DigitChar(n) ELSE toString(n \div 10) \o DigitChar(n % 10)

incrementStrNum(num) ==
  IF parseInt(num) = -1 THEN "NaN" ELSE toString(parseInt(num) + 1)

\* replace that returns the replacement alone, losing the rest of the text
replaceLosingRest(s, pat, rep) ==
  IF indexOf(s, pat) = -1 THEN s ELSE rep

\* String.prototype.replace(pat, rep) with a string pattern: only the first
\* occurrence is replaced (rep holds no $ here)
replace(s, pat, rep) ==
  LET k == indexOf(s, pat)
  IN IF k = -1 THEN s
     ELSE substring(s, 0, k) \o rep \o substring(s, k + Len(pat), Len(s))

\* arr[i] = v on a JavaScript array (i is 0-based)
SetAt(arr, i, v) == [arr EXCEPT ![i + 1] = v]

\* revision 1 of incrementSemVer: [threw, value]
incrementSemVer(v, t) ==
  IF ~isSemVer(v) THEN [threw |-> TRUE, value |-> v]
  ELSE LET numberPart == reSemVerFormatBasic(v)
           arr == split(numberPart)
       IN IF t = "MAJOR"
          THEN [threw |-> FALSE,
                value |-> replace(v, numberPart,
                            join(SetAt(SetAt(SetAt(arr, 0, incrementStrNum(arr[1])),
                                             1, "0"), 2, "0")))]
          ELSE IF t = "MINOR"
          THEN [threw |-> FALSE,
                value |-> replace(v, numberPart,
                            join(SetAt(SetAt(arr, 1, incrementStrNum(arr[2])),
                                       2, "0")))]
          ELSE IF t = "PATCH"
          THEN [threw |-> FALSE,
                value |-> replace(v, numberPart,
                            join(SetAt(arr, 2, incrementStrNum(arr[3]))))]
          ELSE [threw |-> TRUE, value |-> v]

\* revision 2 of incrementSemVer: no component is reset
incrementSemVer2(v, t) ==
  IF ~isSemVer(v) THEN [threw |-> TRUE, value |-> v]
  ELSE LET numberPart == reSemVerFormatBasic(v)
           arr == split(numberPart)
       IN IF t = "MAJOR"
          THEN [threw |-> FALSE,
                value |-> replace(v, numberPart,
                            join(SetAt(arr, 0, incrementStrNum(arr[1]))))]
          ELSE IF t = "MINOR"
          THEN [threw |-> FALSE,
                value |-> replace(v, numberPart,
                            join(SetAt(arr, 1, incrementStrNum(arr[2]))))]
          ELSE IF t = "PATCH"
          THEN [threw |-> FALSE,
                value |-> replace(v, numberPart,
                            join(SetAt(arr, 2, incrementStrNum(arr[3]))))]
          ELSE [threw |-> TRUE, value |-> v]

\* the version texts a manifest may hold
Nums == {"0", "9", "01"}
Suffixes == {"", "-beta.1", "+b7", "-9.0.1+x"}
ValidVersions == {a \o "." \o b \o "." \o c \o x :
                    a \in Nums, b \in Nums, c \in Nums, x \in Suffixes}
                   \cup {"1.2.3", "1.2.3-beta.1"}
InvalidVersions == {"", "1.2", "v1.2.3", "1.2.3-", "1.2.3+a.b", "1x2x3"}

-----------------------------------------------------------------------------
(* ChangelogWriter: reSemVerChangeLogEntry, getCurrentDate, updateChangeLog *)

\* reSemVerChangeLogEntry matches at index k: ^ (flag m) holds at the start
\* of the text and after a line terminator
reSemVerChangeLogEntry(s, k) ==
  /\ k = 0 \/ IsLineTerminator(charAt(s, k - 1))
  /\ charAt(s, k) = "#"
  /\ charAt(s, k + 1) = "#"
  /\ IsSpace(charAt(s, k + 2))
  /\ charAt(s, k + 3) = "["
  /\ SemVerEnd(s, k + 4) # -1
  /\ charAt(s, SemVerEnd(s, k + 4)) = "]"

\* String.prototype.search(reSemVerChangeLogEntry): index of the first
\* match, -1 when there is none
search(s) ==
  LET hits == {k \in 0..Len(s) : reSemVerChangeLogEntry(s, k)}
  IN IF hits = {} THEN -1 ELSE Min(hits)

\* String.prototype.padStart(2, "0")
padStart(s) == IF Len(s) < 2 THEN "0" \o s ELSE s

\* getCurrentDate for the clock reading dt = [date, month, year], where
\* month is Date.getMonth() (0..11)
getCurrentDate(dt) ==
  padStart(toString(dt.date)) \o "-" \o padStart(toString(dt.month + 1))
    \o "-" \o toString(dt.year)

\* updateChangeLog that takes a first heading at index 0 for no heading
updateChangeLogPositiveIndex(c, v, msg, dt) ==
  LET newEntry == "## [" \o v \o "] - " \o getCurrentDate(dt) \o "\n\n" \o msg \o "\n"
      latestEntryIndex == search(c)
  IN IF latestEntryIndex > 0
     THEN substring(c, 0, latestEntryIndex) \o newEntry \o "\n"
            \o substring(c, latestEntryIndex, Len(c))
     ELSE c \o "\n" \o newEntry

\* updateChangeLog that leaves alone a file which already holds the entry
updateChangeLogOnce(c, v, msg, dt) ==
  LET newEntry == "## [" \o v \o "] - " \o getCurrentDate(dt) \o "\n\n" \o msg \o "\n"
      latestEntryIndex == search(c)
  IN IF indexOf(c, newEntry) # -1 THEN c
     ELSE IF latestEntryIndex >= 0
     THEN substring(c, 0, latestEntryIndex) \o newEntry \o "\n"
            \o substring(c, latestEntryIndex, Len(c))
     ELSE c \o "\n" \o newEntry

\* revision 1 of updateChangeLog: the text written to the file
updateChangeLog(c, v, msg, dt) ==
  LET newEntry == "## [" \o v \o "] - " \o getCurrentDate(dt) \o "\n\n" \o msg \o "\n"
      latestEntryIndex == search(c)
  IN IF latestEntryIndex >= 0
     THEN substring(c, 0, latestEntryIndex) \o newEntry \o "\n"
            \o substring(c, latestEntryIndex, Len(c))
     ELSE c \o "\n" \o newEntry

\* revision 2 of updateChangeLog: no date, and no test of the search result
\* (substring clamps the -1 of a failed search to 0)
updateChangeLog2(c, v, msg) ==
  LET newEntry == "## [" \o v \o "] - " \o msg \o "\n"
      latestEntryIndex == search(c)
  IN substring(c, 0, latestEntryIndex) \o newEntry \o "\n"
       \o substring(c, latestEntryIndex, Len(c))

\* changelog files: a preamble followed by what may be an entry
Preambles == {"", "# Log\n\n", "intro", "##\t[x]\n"}
Entries == {"", "## [1.9.0] - 01-12-2023\n\nold\n", "##\n[0.1.0-rc.1+b]\n* a\n",
            " ## [1.0.0]\n", "## [1.0]\n"}
Documents == {p \o e : p \in Preambles, e \in Entries}

\* clock readings
Dates == {[date |-> 1, month |-> 0, year |-> 2024],
          [date |-> 15, month |-> 11, year |-> 2023]}

\* revision 1 writes the entry for the incremented version, which is valid,
\* with the bullet paragraphs of changelog_msg
EntryVersions == {"2.0.0", "1.10.0-beta.1"}
EntryMsgs == {"", "* did X", "* a\n## [9.9.9]\n\n* b"}
\* revision 2 writes the entry for the manifest's version as read, with the
\* raw, non-empty changelog_msg
EntryVersions2 == {"2.0.0", "1.2"}
EntryMsgs2 == {"* did X", "fix [patch]"}

NoDate == [date |-> 0, month |-> 0, year |-> 0]

-----------------------------------------------------------------------------
(* Operations *)

\* run, revision 1 (lines 241, 247): classify a title or changelog_msg
Classify(s) ==
  /\ rev = 1
  /\ LET r == getChangeTypeFromString(s, lastIndex)
     IN /\ ret' = r.ret
        /\ lastIndex' = r.lastIndex
  /\ str' = s
  /\ pc' = "getChangeTypeFromString"
  /\ UNCHANGED <<rev, semVerVars, changeLogVars, io>>

\* run, revision 2 (line 483): classify a title
Classify2(s) ==
  /\ rev = 2
  /\ LET r == getChangeTypeFromString2(s, lastIndex)
     IN /\ ret' = r.ret
        /\ lastIndex' = r.lastIndex
  /\ str' = s
  /\ pc' = "getChangeTypeFromString"
  /\ UNCHANGED <<rev, semVerVars, changeLogVars, io>>

\* run, revision 1 (lines 251-260): increment the manifest's version; the
\* manifest is rewritten only when incrementSemVer returned
Increment(t) ==
  /\ rev = 1
  /\ steps < MaxSteps
  /\ LET r == incrementSemVer(version, t)
     IN /\ version' = r.value
        /\ pc' = IF r.threw THEN "incrementSemVer threw" ELSE "incrementSemVer"
  /\ oldVersion' = version
  /\ semVerType' = t
  /\ steps' = steps + 1
  /\ UNCHANGED <<rev, classifierVars, changeLogVars, io>>

\* run, revision 2 (lines 520-529)
Increment2(t) ==
  /\ rev = 2
  /\ steps < MaxSteps
  /\ LET r == incrementSemVer2(version, t)
     IN /\ version' = r.value
        /\ pc' = IF r.threw THEN "incrementSemVer threw" ELSE "incrementSemVer"
  /\ oldVersion' = version
  /\ semVerType' = t
  /\ steps' = steps + 1
  /\ UNCHANGED <<rev, classifierVars, changeLogVars, io>>

\* run, revision 1 (line 270): write a changelog entry
Insert(v, dt, msg) ==
  /\ rev = 1
  /\ inserts < MaxInserts
  /\ content' = updateChangeLog(content, v, msg, dt)
  /\ before' = content
  /\ orig' = before
  /\ args' = [version |-> v, date |-> dt, msg |-> msg]
  /\ repeated' = (inserts > 0 /\ args = [version |-> v, date |-> dt, msg |-> msg])
  /\ inserts' = inserts + 1
  /\ pc' = "updateChangeLog"
  /\ UNCHANGED <<rev, classifierVars, semVerVars, io>>

\* run, revision 2 (line 502)
Insert2(v, msg) ==
  /\ rev = 2
  /\ inserts < MaxInserts
  /\ content' = updateChangeLog2(content, v, msg)
  /\ before' = content
  /\ orig' = before
  /\ args' = [version |-> v, date |-> NoDate, msg |-> msg]
  /\ repeated' = (inserts > 0 /\ args = [version |-> v, date |-> NoDate, msg |-> msg])
  /\ inserts' = inserts + 1
  /\ pc' = "updateChangeLog"
  /\ UNCHANGED <<rev, classifierVars, semVerVars, io>>

-----------------------------------------------------------------------------
(* Specifications: one per component, each over both revisions *)

\* no run is under way: the components are called on their own
NoRun ==
  [event |-> "", title |-> "", msg |-> "", add |-> FALSE, filename |-> "",
   date |-> NoDate, manifest |-> "", changeType |-> "UNKNOWN",
   manifestWritten |-> FALSE,
   newVersionSet |-> FALSE, commits |-> 0]

InitClassifier ==
  /\ lastIndex = [major |-> 0, minor |-> 0, patch |-> 0]
  /\ str = ""
  /\ ret = "UNKNOWN"

InitSemVer(V) ==
  /\ version \in V
  /\ oldVersion = version
  /\ semVerType = "UNKNOWN"
  /\ steps = 0

InitChangeLog(D) ==
  /\ content \in D
  /\ before = content
  /\ orig = content
  /\ args = [version |-> "", date |-> NoDate, msg |-> ""]
  /\ repeated = FALSE
  /\ inserts = 0

\* the classifier called any number of times in one process
Init ==
  /\ rev \in {1, 2}
  /\ pc = "init"
  /\ io = NoRun
  /\ InitClassifier
  /\ InitSemVer({"1.2.3"})
  /\ InitChangeLog({""})

Next ==
  \/ \E s \in Texts : Classify(s)
  \/ \E s \in Texts : Classify2(s)

Spec == Init /\ [][Next]_vars

\* the version engine applied repeatedly to a manifest's version
InitS ==
  /\ rev \in {1, 2}
  /\ pc = "init"
  /\ io = NoRun
  /\ InitClassifier
  /\ InitSemVer(ValidVersions \cup InvalidVersions)
  /\ InitChangeLog({""})

NextS ==
  \/ \E t \in SemVerTypes : Increment(t)
  \/ \E t \in SemVerTypes : Increment2(t)

SpecSemVer == InitS /\ [][NextS]_vars

\* the changelog writer applied repeatedly to a changelog file
InitC ==
  /\ rev \in {1, 2}
  /\ pc = "init"
  /\ io = NoRun
  /\ InitClassifier
  /\ InitSemVer({"1.2.3"})
  /\ InitChangeLog(Documents)

NextC ==
  \/ \E v \in EntryVersions, dt \in Dates, msg \in EntryMsgs : Insert(v, dt, msg)
  \/ \E v \in EntryVersions2, msg \in EntryMsgs2 : Insert2(v, msg)

SpecChangeLog == InitC /\ [][NextC]_vars

-----------------------------------------------------------------------------
(* Claims about the classifier (specification Spec) *)

\* the text holds a tag of the pattern somewhere, whatever the regex's state
HasTag(word, s) == \E k \in 0..Len(s) : TagEnd(word, s, k) # -1

Classified == pc = "getChangeTypeFromString"

\* C2: a classified text that holds a major tag gives MAJOR, and one that
\* holds a minor tag and no major tag gives MINOR, whatever other tags it
\* holds.
C2_PriorityOrder ==
  Classified =>
    /\ HasTag(reMajor, str) => ret = "MAJOR"
    /\ (HasTag(reMinor, str) /\ ~HasTag(reMajor, str)) => ret = "MINOR"

\* C3: the outcome of a classification depends on the text only: a call
\* with the text of the call before it has the outcome of that call.
C3_SameTextSameResult ==
  [][(Classified /\ Classified' /\ str' = str) => ret' = ret]_vars

\* C8: a text that matches none of the three patterns (the empty text among
\* them) is classified UNKNOWN, and the call does not raise.
C8_UnknownReturned ==
  (Classified /\ ~HasTag(reMajor, str) /\ ~HasTag(reMinor, str)
     /\ ~HasTag(rePatch, str))
    => ret = "UNKNOWN"

-----------------------------------------------------------------------------
(* Claims about the version engine (specification SpecSemVer) *)

Incremented == pc = "incrementSemVer"

\* end (exclusive) of the leading MAJOR.MINOR.PATCH triple of a valid version
TripleEnd(v) == SpanEnd(v, SpanEnd(v, SpanEnd(v, 0, Digits) + 1, Digits) + 1, Digits)

\* the numeric core <<major, minor, patch>> of a valid version
Core(v) ==
  LET a == SpanEnd(v, 0, Digits)
      b == SpanEnd(v, a + 1, Digits)
      c == SpanEnd(v, b + 1, Digits)
  IN <<parseInt(substring(v, 0, a)), parseInt(substring(v, a + 1, b)),
       parseInt(substring(v, b + 1, c))>>

\* C1: an increment of a valid version with core <<major, minor, patch>>
\* gives the core <<major + 1, 0, 0>> for MAJOR, <<major, minor + 1, 0>> for
\* MINOR and <<major, minor, patch + 1>> for PATCH.
C1_CoreBump ==
  Incremented =>
    LET o == Core(oldVersion)
        n == Core(version)
    IN /\ semVerType = "MAJOR" => n = <<o[1] + 1, 0, 0>>
       /\ semVerType = "MINOR" => n = <<o[1], o[2] + 1, 0>>
       /\ semVerType = "PATCH" => n = <<o[1], o[2], o[3] + 1>>

C10_SuffixPreserved ==
  Incremented =>
    /\ substring(version, TripleEnd(version), Len(version))
         = substring(oldVersion, TripleEnd(oldVersion), Len(oldVersion))
    /\ TripleEnd(version) > 0
    /\ Core(version) # Core(oldVersion)

\* "1.2.3-beta.1" incremented with PATCH gave "1.2.4-beta.1"
C10_Witness ==
  /\ Incremented
  /\ oldVersion = "1.2.3-beta.1"
  /\ semVerType = "PATCH"
  /\ version = "1.2.4-beta.1"

-----------------------------------------------------------------------------
(* Claims about the changelog writer (specification SpecChangeLog) *)

Inserted == pc = "updateChangeLog"

\* the block of revision 1 for the arguments a: heading, blank line, body,
\* newline
Block(a) ==
  "## [" \o a.version \o "] - " \o getCurrentDate(a.date) \o "\n\n" \o a.msg \o "\n"

\* the block of revision 2 for the arguments a
Block2(a) == "## [" \o a.version \o "] - " \o a.msg \o "\n"

\* t is s from index k to its end
Rest(s, k) == substring(s, k, Len(s))

\* C4: when the file holds an entry heading, the first at index i, revision
\* 1 writes file[0:i], the new block, one newline and file[i:], and the new
\* heading is the first entry heading of what it writes.
C4_SplicedBeforeFirstEntry ==
  (Inserted /\ rev = 1 /\ search(before) >= 0) =>
    LET i == search(before)
    IN /\ content = substring(before, 0, i) \o Block(args) \o "\n" \o Rest(before, i)
       /\ search(content) = i
       /\ Rest(content, i + Len(Block(args)) + 1) = Rest(before, i)

\* an entry was written into a file with a preamble before its first heading
C4_Witness ==
  /\ Inserted
  /\ rev = 1
  /\ search(before) > 0
  /\ args.msg # ""

\* C5: an entry written into an empty file leaves a file that is the new
\* block alone, heading first, with nothing before the heading.
C5_EmptyFileStartsWithHeading ==
  (Inserted /\ rev = 1 /\ before = "") => content = Block(args)

\* C6: when the file holds no entry heading, what is written is the file as
\* it was, a separating newline, and the new block last.
C6_AppendedWhenNoHeading ==
  (Inserted /\ search(before) = -1) =>
    content = before \o "\n" \o (IF rev = 1 THEN Block(args) ELSE Block2(args))

\* C9 (as amended): two calls in a row with the same arguments leave two
\* copies of the new block, one newline between them, spliced in before the
\* first heading of the original file, or appended to it when it had none;
\* the original text is kept around them.
C9_TwoCopies ==
  (Inserted /\ rev = 1 /\ repeated) =>
    LET i == search(orig)
        twice == Block(args) \o "\n" \o Block(args)
    IN IF i >= 0
       THEN content = substring(orig, 0, i) \o twice \o "\n" \o Rest(orig, i)
       ELSE content = orig \o "\n" \o twice

\* the same entry was written twice into a file with a preamble and a heading
C9_Witness ==
  /\ Inserted
  /\ rev = 1
  /\ repeated
  /\ search(orig) > 0

\* C9 (as claimed): after two calls in a row with the same arguments the
\* file holds two copies of the new block, the second right before the
\* first, and all of the original text follows them.
C9_OriginalAfterCopies ==
  (Inserted /\ rev = 1 /\ repeated) =>
    LET twice == Block(args) \o "\n" \o Block(args)
        j == indexOf(content, twice)
    IN /\ j # -1
       /\ Rest(content, Len(content) - Len(orig)) = orig
       /\ j + Len(twice) <= Len(content) - Len(orig)

-----------------------------------------------------------------------------
(* run: one run of the action per process, in both revisions.  pc is the   *)
(* place the run has come to; "failed" is the catch block (core.setFailed) *)
(* and "returned" the end of run without an error.                         *)

SupportedEvent == {"push", "pull_request", "pull_request_review"}
Events == SupportedEvent \cup {"issues"}

\* String.prototype.split("\n\n")
RECURSIVE splitParagraphs(_)
splitParagraphs(s) ==
  LET k == indexOf(s, "\n\n")
  IN IF k = -1 THEN <<s>>
     ELSE <<substring(s, 0, k)>> \o splitParagraphs(substring(s, k + 2, Len(s)))

\* Array.prototype.join("\n\n")
RECURSIVE joinParagraphs(_)
joinParagraphs(arr) ==
  IF Len(arr) = 0 THEN ""
  ELSE IF Len(arr) = 1 THEN arr[1]
  ELSE arr[1] \o "\n\n" \o joinParagraphs(Tail(arr))

\* run, revision 1, line 269: keep the paragraphs that start with "*"
sanitizeMessage(msg) ==
  joinParagraphs(SelectSeq(splitParagraphs(msg), LAMBDA line : charAt(line, 0) = "*"))

\* the inputs of a run
RunVersions == {"1.2.3", "0.9.9-beta.1", "1.2", "v1.2.3"}
RunMsgs == {"", "no tag", "[minor] t\n\n* did X", "* a #patch\n\nfooter"}
RunTitles == {"x ", "[major] ", "#patch"}
RunDocuments == {"", "# Log\n\n## [1.9.0] - 01-12-2023\n\nold\n"}
ChangelogFilenames == {"", "CHANGELOG.md"}

\* the bookkeeping of a getChangeTypeFromString call with outcome r on text s
Classifying(s, r) ==
  /\ str' = s
  /\ ret' = r.ret
  /\ lastIndex' = r.lastIndex

\* the bookkeeping of an incrementSemVer call
Incrementing ==
  /\ oldVersion' = version
  /\ semVerType' = io.changeType
  /\ steps' = steps + 1

\* the bookkeeping of an updateChangeLog call with arguments a
Writing(a) ==
  /\ before' = content
  /\ orig' = before
  /\ args' = a
  /\ repeated' = (inserts > 0 /\ args = a)
  /\ inserts' = inserts + 1

\* revision 1, lines 226-229: the event must be a supported one
RunCheckEvent ==
  /\ rev = 1
  /\ pc = "run"
  /\ pc' = IF io.event \in SupportedEvent THEN "classify" ELSE "failed"
  /\ UNCHANGED <<rev, classifierVars, semVerVars, changeLogVars, io>>

\* revision 1, lines 232-243: a pull request event classifies the title,
\* and returns
RunClassifyTitle ==
  /\ rev = 1
  /\ pc = "classify"
  /\ io.event \in {"pull_request", "pull_request_review"}
  /\ LET r == getChangeTypeFromString(io.title, lastIndex)
     IN /\ Classifying(io.title, r)
        /\ IF r.ret = "THROW"
           THEN pc' = "failed" /\ io' = io
           ELSE pc' = "returned" /\ io' = [io EXCEPT !.changeType = r.ret]
  /\ UNCHANGED <<rev, semVerVars, changeLogVars>>

\* revision 1, lines 246-247: a push classifies changelog_msg
RunClassifyMsg ==
  /\ rev = 1
  /\ pc = "classify"
  /\ io.event = "push"
  /\ LET r == getChangeTypeFromString(io.msg, lastIndex)
     IN /\ Classifying(io.msg, r)
        /\ IF r.ret = "THROW"
           THEN pc' = "failed" /\ io' = io
           ELSE pc' = "getPackageVersion" /\ io' = [io EXCEPT !.changeType = r.ret]
  /\ UNCHANGED <<rev, semVerVars, changeLogVars>>

\* revision 1, line 249 (getPackageVersion, lines 57-68): the version read
\* from the manifest must be a SemVer
RunGetPackageVersion ==
  /\ rev = 1
  /\ pc = "getPackageVersion"
  /\ pc' = IF isSemVer(version) THEN "increment" ELSE "failed"
  /\ UNCHANGED <<rev, classifierVars, semVerVars, changeLogVars, io>>

\* revision 1, lines 251-260: increment, set the outputs, rewrite the
\* manifest
RunIncrement ==
  /\ rev = 1
  /\ pc = "increment"
  /\ LET r == incrementSemVer(version, io.changeType)
     IN IF r.threw
        THEN pc' = "failed" /\ version' = version /\ io' = io
        ELSE /\ pc' = "checkInputs"
             /\ version' = r.value
             /\ io' = [io EXCEPT !.newVersionSet = TRUE, !.manifestWritten = TRUE]
  /\ Incrementing
  /\ UNCHANGED <<rev, classifierVars, changeLogVars>>

\* revision 1, lines 262-265: a changelog entry needs a file name and a
\* message; then the manifest is committed
RunCheckInputs ==
  /\ rev = 1
  /\ pc = "checkInputs"
  /\ IF io.add /\ (io.filename = "" \/ io.msg = "")
     THEN pc' = "failed" /\ io' = io
     ELSE /\ pc' = IF io.add THEN "updateChangeLog" ELSE "returned"
          /\ io' = [io EXCEPT !.commits = @ + 1]
  /\ UNCHANGED <<rev, classifierVars, semVerVars, changeLogVars>>

\* revision 1, lines 267-272: write the changelog entry and commit it
RunUpdateChangeLog ==
  /\ rev = 1
  /\ pc = "updateChangeLog"
  /\ content' = updateChangeLog(content, version, sanitizeMessage(io.msg), io.date)
  /\ Writing([version |-> version, date |-> io.date, msg |-> sanitizeMessage(io.msg)])
  /\ io' = [io EXCEPT !.commits = @ + 1]
  /\ pc' = "returned"
  /\ UNCHANGED <<rev, classifierVars, semVerVars>>

\* revision 2, lines 472-477: the event must be a supported one; a push
\* classifies nothing
Run2CheckEvent ==
  /\ rev = 2
  /\ pc = "run"
  /\ pc' = IF io.event \notin SupportedEvent THEN "failed"
           ELSE IF io.event = "push" THEN "getPackageVersion"
           ELSE "classify"
  /\ UNCHANGED <<rev, classifierVars, semVerVars, changeLogVars, io>>

\* revision 2, lines 478-493: a pull request event classifies the title;
\* UNKNOWN is an error
Run2ClassifyTitle ==
  /\ rev = 2
  /\ pc = "classify"
  /\ LET r == getChangeTypeFromString2(io.title, lastIndex)
     IN /\ Classifying(io.title, r)
        /\ io' = [io EXCEPT !.changeType = r.ret]
        /\ pc' = IF r.ret = "UNKNOWN" THEN "failed" ELSE "getPackageVersion"
  /\ UNCHANGED <<rev, semVerVars, changeLogVars>>

\* revision 2, line 511: only a review goes on to the increment
AfterPush == IF io.event = "pull_request_review" THEN "increment" ELSE "returned"

\* Run2GetPackageVersion with the event test of line 497 lost: every event
\* goes through the changelog step
Run2GetPackageVersionAlwaysPush ==
  /\ rev = 2
  /\ pc = "getPackageVersion"
  /\ pc' = "push"
  /\ UNCHANGED <<rev, classifierVars, semVerVars, changeLogVars, io>>

\* revision 2, line 495 (getPackageVersion, lines 334-339): the version is
\* read and not checked; line 497 sends a push to the changelog step, line
\* 511 the other events on
Run2GetPackageVersion ==
  /\ rev = 2
  /\ pc = "getPackageVersion"
  /\ pc' = IF io.event = "push" THEN "push" ELSE AfterPush
  /\ UNCHANGED <<rev, classifierVars, semVerVars, changeLogVars, io>>

\* revision 2, lines 497-511: a push writes the changelog entry for the
\* version as read and commits it, or warns; then run returns unless the
\* event is a review
Run2Push ==
  /\ rev = 2
  /\ pc = "push"
  /\ IF io.add /\ (io.filename = "" \/ io.msg = "")
     THEN pc' = "failed" /\ io' = io /\ UNCHANGED changeLogVars
     ELSE IF io.add
     THEN /\ content' = updateChangeLog2(content, version, io.msg)
          /\ Writing([version |-> version, date |-> NoDate, msg |-> io.msg])
          /\ io' = [io EXCEPT !.commits = @ + 1]
          /\ pc' = AfterPush
     ELSE pc' = AfterPush /\ io' = io /\ UNCHANGED changeLogVars
  /\ UNCHANGED <<rev, classifierVars, semVerVars>>

\* revision 2, lines 515-530: on a review, check the version, increment,
\* set the outputs, rewrite the manifest and commit it
Run2Increment ==
  /\ rev = 2
  /\ pc = "increment"
  /\ IF ~isSemVer(version)
     THEN pc' = "failed" /\ io' = io /\ UNCHANGED semVerVars
     ELSE LET r == incrementSemVer2(version, io.changeType)
          IN /\ Incrementing
             /\ IF r.threw
                THEN pc' = "failed" /\ version' = version /\ io' = io
                ELSE /\ pc' = "returned"
                     /\ version' = r.value
                     /\ io' = [io EXCEPT !.newVersionSet = TRUE,
                                         !.manifestWritten = TRUE,
                                         !.commits = @ + 1]
  /\ UNCHANGED <<rev, classifierVars, changeLogVars>>

\* a process starts a run on some event, inputs, manifest and changelog
InitR ==
  /\ rev \in {1, 2}
  /\ pc = "run"
  /\ InitClassifier
  /\ InitSemVer(RunVersions)
  /\ InitChangeLog(RunDocuments)
  /\ \E e \in Events, t \in RunTitles, m \in RunMsgs, a \in BOOLEAN,
        f \in ChangelogFilenames, d \in Dates :
       io = [NoRun EXCEPT !.event = e, !.title = t, !.msg = m, !.add = a,
                          !.filename = f, !.date = d, !.manifest = version]

NextR ==
  \/ RunCheckEvent
  \/ RunClassifyTitle
  \/ RunClassifyMsg
  \/ RunGetPackageVersion
  \/ RunIncrement
  \/ RunCheckInputs
  \/ RunUpdateChangeLog
  \/ Run2CheckEvent
  \/ Run2ClassifyTitle
  \/ Run2GetPackageVersion
  \/ Run2Push
  \/ Run2Increment

SpecRun == InitR /\ [][NextR]_vars

-----------------------------------------------------------------------------
(* Claims about run (specification SpecRun) *)

RunEnded == pc \in {"failed", "returned"}

\* the runs whose event leads to the increment of the version
ToIncrement ==
  \/ rev = 1 /\ io.event = "push"
  \/ rev = 2 /\ io.event = "pull_request_review"

\* nothing has been written: the manifest has not been rewritten, the
\* changelog has not been written, new_version has not been set and no
\* commit has been issued
NothingWritten ==
  /\ ~io.manifestWritten
  /\ version = io.manifest
  /\ inserts = 0
  /\ content = orig
  /\ ~io.newVersionSet
  /\ io.commits = 0

\* the manifest's version was not a SemVer, or the change type is UNKNOWN
CannotIncrement == ~isSemVer(io.manifest) \/ io.changeType = "UNKNOWN"

\* C11 (as amended): when a run that is to increment the version has ended
\* and the manifest's version was not a SemVer or the change type is
\* UNKNOWN, the run has failed and nothing has been written.
C11_NoPartialUpdate ==
  (RunEnded /\ ToIncrement /\ CannotIncrement) =>
    (pc = "failed" /\ NothingWritten)

\* a run classified its text, found the manifest's version invalid and
\* failed, with a changelog entry asked for
C11_Witness ==
  /\ pc = "failed"
  /\ ToIncrement
  /\ ~isSemVer(io.manifest)
  /\ io.changeType # "UNKNOWN"
  /\ io.add /\ io.filename # "" /\ io.msg # ""

\* C11 (as claimed): when any run has ended and the manifest's version was
\* not a SemVer or the change type is UNKNOWN, the run has failed and
\* nothing has been written.
C11_EveryRun ==
  (RunEnded /\ CannotIncrement) => (pc = "failed" /\ NothingWritten)

====
